---- MODULE Spec2Model ----
(***************************************************************************)
(* MailNotifierBot: one bounded scan of a mailbox per invocation of main() *)
(* (src/main.py), relayed message by message to a chat (src/src/bot.py).   *)
(*                                                                         *)
(* Two specifications live here:                                           *)
(*   Spec       main() invoked any number of times over a growing mailbox: *)
(*              Bot.__init__, Bot.run with the get_emails generator and    *)
(*              send_mail, and the state file .mnbs;                       *)
(*   SpecSplit  the pure function split(text, max_message_length), one     *)
(*              recursive call per step.                                   *)
(***************************************************************************)
EXTENDS Integers, Sequences, FiniteSets, TLC

\* ------------------------------------------------------------------ bounds

\* Messages the mailbox can hold over a behaviour (uids 1..MaxMail).
MaxMail == 2
\* The values the configuration's last_uid is drawn from: 0..MaxCfgUid.
MaxCfgUid == 1
\* Bot.send_mail calls split(message) with the default max_message_length
\* (4091 in the source); the model scales it down to the size of its texts.
DefaultMaxLength == 3
\* split's inputs: texts of up to MaxTextLen characters ...
MaxTextLen == 4
\* ... and max_message_length drawn from 1..MaxMaxLength.
MaxMaxLength == 3

\* ------------------------------------------------------- python primitives

NL == "\n"
\* The characters texts are made of: the two break markers' characters and
\* one ordinary character.
Chars == {NL, ",", " ", "a"}

Min(a, b) == IF a < b THEN a ELSE b
Max(a, b) == IF a > b THEN a ELSE b

\* max(iterable) over a non-empty set of integers.
MaxOf(S) == CHOOSE x \in S : \A y \in S : y <= x

\* text[:k], with python's meaning of a negative k.
SliceTo(text, k) ==
    IF k < 0 THEN SubSeq(text, 1, Max(Len(text) + k, 0))
             ELSE SubSeq(text, 1, Min(k, Len(text)))

\* text[k:] for k >= 0.
SliceFrom(text, k) == SubSeq(text, k + 1, Len(text))

\* text.rfind(sep, start, end): the highest 0-based index at which sep lies
\* wholly inside text[start:end], -1 when there is none.
RFind(text, sep, start, end) ==
    LET stop == Min(end, Len(text))
        hits == {i \in start..(stop - Len(sep)) :
                    SubSeq(text, i + 1, i + Len(sep)) = sep}
    IN  IF hits = {} THEN -1 ELSE MaxOf(hits)

\* str(n) for n >= 0: the decimal digits, most significant first.
RECURSIVE Str(_)
Str(n) == IF n < 10 THEN <<n>> ELSE Str(n \div 10) \o <<n % 10>>

\* int(s) for a string of decimal digits.
RECURSIVE ParseInt(_)
ParseInt(s) ==
    IF Len(s) = 0 THEN 0
    ELSE 10 * ParseInt(SubSeq(s, 1, Len(s) - 1)) + s[Len(s)]

\* "\n".join(parts)
RECURSIVE JoinNL(_)
JoinNL(parts) ==
    IF Len(parts) = 0 THEN <<>>
    ELSE IF Len(parts) = 1 THEN parts[1]
    ELSE parts[1] \o <<NL>> \o JoinNL(Tail(parts))

\* ------------------------------------------------------------------- split

message_breakers == << <<NL>>, <<",", " ">> >>

LastIndex_NoWindow(text, max_message_length) ==
    MaxOf({RFind(text, message_breakers[i], 0, Len(text)) :
              i \in 1..Len(message_breakers)})

\* last_index = max(map(lambda separator: text.rfind(separator, 0, max), ...))
LastIndex(text, max_message_length) ==
    MaxOf({RFind(text, message_breakers[i], 0, max_message_length) :
              i \in 1..Len(message_breakers)})

\* good_part = text[:last_index]
GoodPart(text, last_index) == SliceTo(text, last_index)

BadPart_SkipsTwo(text, last_index) == SliceFrom(text, last_index + 2)

\* bad_part = text[last_index + 1:]
BadPart(text, last_index) == SliceFrom(text, last_index + 1)

\* The depth of recursion the interpreter allows before it raises
\* RecursionError.  Every call that cuts at a marker shortens the text by at
\* least one character, so a text of the model never needs more than
\* MaxTextLen + 1 nested calls unless the recursion does not shrink (the
\* interpreter's default is 1000, for texts of thousands of characters).
RecursionLimit == MaxTextLen + 4

\* split(text, max_message_length) as python evaluates it: the list of
\* segments, or RecursionError when the nesting passes the limit.
RECURSIVE SplitAt(_, _, _)
SplitAt(text, max_message_length, depth) ==
    IF depth > RecursionLimit THEN [raised |-> TRUE, value |-> <<>>]
    ELSE IF Len(text) >= max_message_length
    THEN LET last_index == LastIndex(text, max_message_length)
             rest == SplitAt(BadPart(text, last_index), max_message_length,
                             depth + 1)
         IN  IF rest.raised THEN rest
             ELSE [raised |-> FALSE,
                   value |-> <<GoodPart(text, last_index)>> \o rest.value]
    ELSE [raised |-> FALSE, value |-> <<text>>]

split(text, max_message_length) == SplitAt(text, max_message_length, 1)

\* ------------------------------------------------------------ the mailbox

\* The messages the mail source can hold, as mailparser presents them:
\* from_ (display name, address), the outcome of parse_from_bytes on the raw
\* bytes, the HTML parts, the plain-text parts, the attachments' file names.
MailKinds == <<
    \* HTML and plain text together
    [from_ |-> << <<"A", "a@x">> >>, parse |-> "ok",
     text_html |-> << <<"a">> >>, text_plain |-> << <<"a">> >>,
     attachments |-> <<>>],
    \* plain text that split cuts at a marker
    [from_ |-> << <<"B", "b@x">> >>, parse |-> "ok",
     text_html |-> <<>>, text_plain |-> << <<"a", ",", " ", "a">> >>,
     attachments |-> <<>>],
    \* plain text of one character, and an attachment
    [from_ |-> << <<"A", "a@x">> >>, parse |-> "ok",
     text_html |-> <<>>, text_plain |-> << <<"a">> >>,
     attachments |-> <<"f">>],
    \* plain text with no marker, as long as the maximum length
    [from_ |-> << <<"A", "a@x">> >>, parse |-> "ok",
     text_html |-> <<>>, text_plain |-> << <<"a", "a", "a", "a">> >>,
     attachments |-> <<>>],
    \* no body, three attachments, two of them with one file name
    [from_ |-> << <<"B", "b@x">> >>, parse |-> "ok",
     text_html |-> <<>>, text_plain |-> <<>>,
     attachments |-> <<"f", "f", "g">>],
    \* raw bytes parse_from_bytes raises TypeError on
    [from_ |-> << <<"A", "a@x">> >>, parse |-> "TypeError",
     text_html |-> <<>>, text_plain |-> <<>>, attachments |-> <<>>]
>>

KindIds == 1..Len(MailKinds)

\* The configurations the bot is started with (config.ini).
Configs ==
    [last_uid : 0..MaxCfgUid, read_only : BOOLEAN,
     criteria : {"UNSEEN", "ALL"}, whitelist : {<<>>, <<"a@x">>}]

\* The content of .mnbs: absent, or {"last_uid": v} with v a JSON number
\* (written by __init__) or a JSON string (written by run).
NoFile == [type |-> "absent", n |-> 0, s |-> <<>>]
JsonInt(k) == [type |-> "int", n |-> k, s |-> <<>>]
JsonStr(digits) == [type |-> "str", n |-> 0, s |-> digits]

\* int(bot_state["last_uid"])
IntOf(v) == IF v.type = "str" THEN ParseInt(v.s) ELSE v.n

\* run's local last_uid before the first message: None.
None == <<>>

VARIABLES
    cfg,            \* the configuration file's values the bot reads
    mailbox,        \* the folder: mailbox[uid] is the kind of message uid
    seen,           \* the uids that carry the \Seen flag
    mnbs,           \* the state file .mnbs
    pc,             \* where main() is
    self_last_uid,  \* Bot.last_uid, the watermark loaded by __init__
    items,          \* what is left of server.fetch(...).items() to iterate
    last_uid,       \* run's local last_uid
    out,            \* the dispatch calls the latest send_mail completed
    h,              \* what the run did so far (history: no action's effect on
                    \* the program's state depends on it)
    sp              \* split's call state (SpecSplit)

vars == <<cfg, mailbox, seen, mnbs, pc, self_last_uid, items, last_uid, out,
          h, sp>>

Uids == 1..Len(mailbox)
Mail(uid) == MailKinds[mailbox[uid]]

\* The history of a run at its start.
NoHistory ==
    [auth |-> "none", cur |-> 0, outcome |-> "none", yielded |-> {},
     failed |-> {}, sends |-> 0, stored0 |-> NoFile, repeat |-> FALSE,
     newmail |-> FALSE, before |-> None, prior |-> NoFile, raised |-> "",
     dispatched |-> {}, redo |-> {}]

SplitIdle == [pc |-> "off", text |-> <<>>, max |-> 0, rest |-> <<>>,
              segs |-> <<>>, cuts |-> <<>>, depth |-> 0]

Init ==
    /\ cfg \in Configs
    /\ mailbox = <<>>
    /\ seen = {}
    /\ mnbs = NoFile
    /\ pc = "idle"
    /\ self_last_uid = 0
    /\ items = {}
    /\ last_uid = None
    /\ out = <<>>
    /\ h = NoHistory
    /\ sp = SplitIdle

\* --------------------------------------------------------------- __init__

\* self.last_uid after the read_only branch of __init__: the configured value,
\* raised to the state file's when the file is there.
LoadedLastUid_ConfigOnly(config, file) == config.last_uid

LoadedLastUid(config, file) ==
    IF config.read_only /\ file # NoFile
    THEN Max(config.last_uid, IntOf(file))
    ELSE config.last_uid

FileAfterInit_NeverCreated(config, file) == file

\* .mnbs after __init__: created with {"last_uid": 0} when read_only is set
\* and open() raised FileNotFoundError.
FileAfterInit(config, file) ==
    IF config.read_only /\ file = NoFile THEN JsonInt(0) ELSE file

MainCatches_OnlyLoginError(exception) == exception = "LoginError"

\* main()'s handler, a bare except: it catches whatever is raised.
MainCatches(exception) == TRUE

\* Where main() is after Bot(...).run() raised: the handler logged "A global
\* error occured." and main() returned, or the exception left main().
AfterRaise(exception) ==
    IF MainCatches(exception) THEN "aborted" ELSE "crashed"

\* main() builds Bot("config.ini"): a first invocation, or the next one after
\* the previous main() returned.
Construct ==
    /\ pc \in {"idle", "done", "aborted"}
    /\ self_last_uid' = LoadedLastUid(cfg, mnbs)
    /\ mnbs' = FileAfterInit(cfg, mnbs)
    /\ pc' = "constructed"
    /\ items' = {}
    /\ last_uid' = None
    /\ out' = <<>>
    /\ h' = [NoHistory EXCEPT
                !.prior = mnbs,
                !.stored0 = mnbs',
                !.repeat = (pc = "done" /\ h.auth = "ok" /\ ~h.newmail),
                !.redo = IF pc = "aborted" THEN h.dispatched ELSE {}]
    /\ UNCHANGED <<cfg, mailbox, seen, sp>>

\* Bot("config.ini") raises: a section or an option of config.ini is missing
\* (before the state file is looked at, or at the token after it), or .mnbs
\* does not hold what json.load and int expect.  main() catches it.
ConstructRaises ==
    /\ pc \in {"idle", "done", "aborted"}
    /\ \E exception \in {"NoSectionError", "NoOptionError", "JSONDecodeError"} :
        /\ mnbs' = IF exception = "NoOptionError"
                   THEN FileAfterInit(cfg, mnbs) ELSE mnbs
        /\ pc' = AfterRaise(exception)
        /\ h' = [NoHistory EXCEPT
                    !.prior = mnbs,
                    !.stored0 = mnbs',
                    !.outcome = "init_raised",
                    !.raised = exception,
                    !.dispatched = IF pc = "aborted" THEN h.dispatched
                                                     ELSE {}]
    /\ items' = {}
    /\ last_uid' = None
    /\ out' = <<>>
    /\ UNCHANGED <<cfg, mailbox, seen, self_last_uid, sp>>

\* ------------------------------------------------------------- get_emails

\* server.search(self.criteria): the uids the criteria select.
Search(criteria) ==
    IF criteria = "UNSEEN" THEN {u \in Uids : u \notin seen} ELSE Uids

\* The flags after server.fetch(mails, "RFC822"): fetching a message's body
\* from a folder selected read-write sets its \Seen flag.
SeenAfterFetch(read_only, mails) ==
    IF read_only THEN seen ELSE seen \cup mails

ItemsAfterLoginError_GoesOn(mails) == mails

\* What the generator iterates after LoginError: it returns at once.
ItemsAfterLoginError(mails) == {}

IsOld_Strict(uid, watermark) == uid < watermark

\* if uid <= self.last_uid: continue
IsOld(uid, watermark) == uid <= watermark

\* run() up to the loop's first step: TeleBot(...), last_uid = None, and the
\* generator's start: connect, login, select_folder, search, fetch.
RunFetch ==
    /\ pc = "constructed"
    /\ LET mails == Search(cfg.criteria) IN
        /\ items' = mails
        /\ seen' = SeenAfterFetch(cfg.read_only, mails)
    /\ last_uid' = None
    /\ pc' = "loop"
    /\ h' = [h EXCEPT !.auth = "ok", !.newmail = FALSE]
    /\ UNCHANGED <<cfg, mailbox, mnbs, self_last_uid, out, sp>>

\* server.login raises LoginError: logged, and the generator ends.
RunLoginError ==
    /\ pc = "constructed"
    /\ items' = ItemsAfterLoginError(Search(cfg.criteria))
    /\ last_uid' = None
    /\ pc' = "loop"
    /\ h' = [h EXCEPT !.auth = "failed", !.newmail = FALSE]
    /\ UNCHANGED <<cfg, mailbox, seen, mnbs, self_last_uid, out, sp>>

\* IMAPClient(...), select_folder, search or fetch raises (the network, the
\* server): nothing in bot.py catches it, main() does.
RunConnectError ==
    /\ pc = "constructed"
    /\ pc' = AfterRaise("ConnectionError")
    /\ h' = [h EXCEPT !.auth = "error", !.outcome = "connect_failed",
                      !.raised = "ConnectionError"]
    /\ UNCHANGED <<cfg, mailbox, seen, mnbs, self_last_uid, items, last_uid,
                   out, sp>>

NotYielded_Advances(local_last_uid, uid) == Str(uid)

\* run's local last_uid after a turn that yields nothing (continue, or
\* except TypeError: pass): run's body is not entered, so it is what it was.
NotYielded(local_last_uid, uid) == local_last_uid

\* One turn of the generator's loop on an item the watermark covers.
SkipOld ==
    /\ pc = "loop"
    /\ \E uid \in items :
        /\ IsOld(uid, self_last_uid)
        /\ items' = items \ {uid}
        /\ last_uid' = NotYielded(last_uid, uid)
        /\ h' = [h EXCEPT !.cur = uid, !.outcome = "skipped",
                          !.before = last_uid]
    /\ UNCHANGED <<cfg, mailbox, seen, mnbs, pc, self_last_uid, out, sp>>

\* One turn of the generator's loop on an item parse_from_bytes raises
\* TypeError on: except TypeError: pass.
ParseFails ==
    /\ pc = "loop"
    /\ \E uid \in items :
        /\ ~IsOld(uid, self_last_uid)
        /\ Mail(uid).parse = "TypeError"
        /\ items' = items \ {uid}
        /\ last_uid' = NotYielded(last_uid, uid)
        /\ h' = [h EXCEPT !.cur = uid, !.outcome = "parse_failed",
                          !.failed = @ \cup {uid}, !.before = last_uid]
    /\ UNCHANGED <<cfg, mailbox, seen, mnbs, pc, self_last_uid, out, sp>>

\* -------------------------------------------------------------- send_mail

Call(method, what) == [method |-> method, what |-> what]

Rejected_Inverted(whitelist, sender_email_raw) ==
    /\ Len(whitelist) > 0
    /\ \E i \in 1..Len(whitelist) : whitelist[i] = sender_email_raw

\* len(self.whitelist) > 0 and sender_email_raw not in self.whitelist
Rejected(whitelist, sender_email_raw) ==
    /\ Len(whitelist) > 0
    /\ \A i \in 1..Len(whitelist) : whitelist[i] # sender_email_raw

\* os.listdir(tmp_dir) after mail.write_attachments(tmp_dir): one file per
\* distinct file name, in an order the file system chooses.
ListDirs(mail) ==
    LET names == {mail.attachments[i] : i \in 1..Len(mail.attachments)}
    IN  {fs \in [1..Cardinality(names) -> names] :
            {fs[i] : i \in 1..Cardinality(names)} = names}

BodyCalls_BothBranches(mail) ==
    (IF Len(mail.text_html) > 0
     THEN <<Call("send_document", ".html")>> ELSE <<>>)
    \o (IF Len(mail.text_plain) > 0
        THEN <<Call("send_message", "text")>> ELSE <<>>)

\* The body branch of send_mail: the HTML document, else the first chunk of
\* the plain text and, for a text of two characters or more, the .txt file.
BodyCalls(mail) ==
    IF Len(mail.text_html) > 0
    THEN <<Call("send_document", ".html")>>
    ELSE IF Len(mail.text_plain) > 0
    THEN LET message == JoinNL(mail.text_plain) IN
         <<Call("send_message", "text")>>
         \o (IF Len(message) >= 2 THEN <<Call("send_document", ".txt")>>
                                  ELSE <<>>)
    ELSE <<>>

\* The attachment branch: one unnamed document per file of the directory.
AttachmentCalls(files) ==
    [i \in 1..Len(files) |-> Call("send_document", files[i])]

\* send_mail(mail) when every dispatch call succeeds, or up to the exception
\* python raises before any of them: raised names the exception, sent is the
\* returned value, calls are the dispatch calls in order.
SendMail(mail, whitelist, files) ==
    IF Len(mail.from_) = 0
    THEN [raised |-> "IndexError", sent |-> FALSE, calls |-> <<>>]
    ELSE IF Rejected(whitelist, mail.from_[1][2])
    THEN [raised |-> "", sent |-> FALSE, calls |-> <<>>]
    ELSE IF /\ Len(mail.text_html) = 0
            /\ Len(mail.text_plain) > 0
            /\ split(JoinNL(mail.text_plain), DefaultMaxLength).raised
    THEN [raised |-> "RecursionError", sent |-> FALSE, calls |-> <<>>]
    ELSE [raised |-> "", sent |-> TRUE,
          calls |-> BodyCalls(mail) \o AttachmentCalls(files)]

\* -------------------------------------------------------------------- run

\* last_uid = str(mail_id)
Advance(mail_id) == Str(mail_id)

\* One turn of run's loop on a yielded message whose send_mail returns:
\* sent = self.send_mail(email); last_uid = str(mail_id); the pacing sleep.
Handle ==
    /\ pc = "loop"
    /\ \E uid \in items :
        /\ ~IsOld(uid, self_last_uid)
        /\ Mail(uid).parse = "ok"
        /\ \E files \in ListDirs(Mail(uid)) :
            LET r == SendMail(Mail(uid), cfg.whitelist, files) IN
            /\ r.raised = ""
            /\ out' = r.calls
            /\ last_uid' = Advance(uid)
            /\ items' = items \ {uid}
            /\ h' = [h EXCEPT
                        !.cur = uid,
                        !.outcome = IF r.sent THEN "sent" ELSE "rejected",
                        !.yielded = @ \cup {uid},
                        !.sends = @ + Len(r.calls),
                        !.dispatched = IF Len(r.calls) > 0 THEN @ \cup {uid}
                                                           ELSE @,
                        !.before = last_uid]
    /\ UNCHANGED <<cfg, mailbox, seen, mnbs, pc, self_last_uid, sp>>

\* One turn of run's loop on a yielded message whose send_mail raises: the
\* k-th dispatch call fails (TeleBot raises), or python raises before any
\* call.  Nothing in send_mail or run catches it: run ends, main() logs.
HandleRaises ==
    /\ pc = "loop"
    /\ \E uid \in items :
        /\ ~IsOld(uid, self_last_uid)
        /\ Mail(uid).parse = "ok"
        /\ \E files \in ListDirs(Mail(uid)) :
            LET r == SendMail(Mail(uid), cfg.whitelist, files) IN
            \/ /\ r.raised # ""
               /\ out' = <<>>
               /\ pc' = AfterRaise(r.raised)
               /\ h' = [h EXCEPT !.cur = uid, !.outcome = "send_mail_raised",
                                 !.raised = r.raised,
                                 !.yielded = @ \cup {uid},
                                 !.before = last_uid]
            \/ /\ r.raised = ""
               /\ \E k \in 1..Len(r.calls) :
                    /\ out' = SubSeq(r.calls, 1, k - 1)
                    /\ pc' = AfterRaise("ApiException")
                    /\ h' = [h EXCEPT !.cur = uid,
                                      !.outcome = "dispatch_failed",
                                      !.raised = "ApiException",
                                      !.yielded = @ \cup {uid},
                                      !.sends = @ + (k - 1),
                                      !.dispatched = IF k > 1 THEN @ \cup {uid}
                                                              ELSE @,
                                      !.before = last_uid]
        /\ items' = items \ {uid}
    /\ UNCHANGED <<cfg, mailbox, seen, mnbs, self_last_uid, last_uid, sp>>

FileAfterRun_WritesNone(config, file, local_last_uid) ==
    IF config.read_only THEN JsonStr(local_last_uid) ELSE file

\* .mnbs after the loop: if not (last_uid is None) and self.read_only, the
\* file is rewritten with {"last_uid": last_uid}.
FileAfterRun(config, file, local_last_uid) ==
    IF local_last_uid # None /\ config.read_only
    THEN JsonStr(local_last_uid)
    ELSE file

\* The generator is exhausted: the state file is written, "All emails
\* processed." is logged, run and main() return.
Finalize ==
    /\ pc = "loop"
    /\ items = {}
    /\ mnbs' = FileAfterRun(cfg, mnbs, last_uid)
    /\ pc' = "done"
    /\ UNCHANGED <<cfg, mailbox, seen, self_last_uid, items, last_uid, out, h,
                   sp>>

\* A message arrives in the folder; the mail source numbers it with the next
\* uid.
NewMail ==
    /\ Len(mailbox) < MaxMail
    /\ \E k \in KindIds : mailbox' = Append(mailbox, k)
    /\ h' = [h EXCEPT !.newmail = TRUE, !.repeat = FALSE]
    /\ UNCHANGED <<cfg, seen, mnbs, pc, self_last_uid, items, last_uid, out,
                   sp>>

Next ==
    \/ Construct
    \/ ConstructRaises
    \/ RunFetch
    \/ RunLoginError
    \/ RunConnectError
    \/ SkipOld
    \/ ParseFails
    \/ Handle
    \/ HandleRaises
    \/ Finalize
    \/ NewMail

Spec == Init /\ [][Next]_vars

\* ------------------------------------------------- split, call by call

\* The texts split is applied to: every string over Chars of up to
\* MaxTextLen characters.
Texts == UNION {[1..n -> Chars] : n \in 0..MaxTextLen}

\* text[last_index:last_index + 1], what lies between good_part and
\* bad_part: the one character a cut at a marker removes (the newline, or
\* the comma of a comma-space), nothing when last_index is -1.
Consumed(text, last_index) ==
    IF last_index < 0 THEN <<>>
    ELSE SubSeq(text, last_index + 1, Min(last_index + 1, Len(text)))

\* split is called on text with max_message_length max.
SplitStart(text, max) ==
    [pc |-> "call", text |-> text, max |-> max, rest |-> text,
     segs |-> <<>>, cuts |-> <<>>, depth |-> 1]

InitSplit ==
    /\ cfg = [last_uid |-> 0, read_only |-> FALSE, criteria |-> "UNSEEN",
              whitelist |-> <<>>]
    /\ mailbox = <<>>
    /\ seen = {}
    /\ mnbs = NoFile
    /\ pc = "idle"
    /\ self_last_uid = 0
    /\ items = {}
    /\ last_uid = None
    /\ out = <<>>
    /\ h = NoHistory
    /\ \E text \in Texts, max \in 1..MaxMaxLength : sp = SplitStart(text, max)

\* len(text) >= max_message_length: the call cuts at last_index and recurses
\* on bad_part.
SplitCut ==
    /\ sp.pc = "call"
    /\ sp.depth <= RecursionLimit
    /\ Len(sp.rest) >= sp.max
    /\ LET last_index == LastIndex(sp.rest, sp.max) IN
        sp' = [sp EXCEPT
                 !.segs = Append(@, GoodPart(sp.rest, last_index)),
                 !.cuts = Append(@, Consumed(sp.rest, last_index)),
                 !.rest = BadPart(sp.rest, last_index),
                 !.depth = @ + 1]
    /\ UNCHANGED <<cfg, mailbox, seen, mnbs, pc, self_last_uid, items,
                   last_uid, out, h>>

\* else: return [text]; the callers prepend their good parts.
SplitReturn ==
    /\ sp.pc = "call"
    /\ sp.depth <= RecursionLimit
    /\ Len(sp.rest) < sp.max
    /\ sp' = [sp EXCEPT !.segs = Append(@, sp.rest), !.rest = <<>>,
                        !.pc = "returned"]
    /\ UNCHANGED <<cfg, mailbox, seen, mnbs, pc, self_last_uid, items,
                   last_uid, out, h>>

\* The nesting passed the interpreter's limit: RecursionError, no list.
SplitOverflow ==
    /\ sp.pc = "call"
    /\ sp.depth > RecursionLimit
    /\ sp' = [sp EXCEPT !.pc = "RecursionError"]
    /\ UNCHANGED <<cfg, mailbox, seen, mnbs, pc, self_last_uid, items,
                   last_uid, out, h>>

NextSplit == SplitCut \/ SplitReturn \/ SplitOverflow

SpecSplit == InitSplit /\ [][NextSplit]_vars

\* ------------------------------------------------------------ the claims

\* The watermark the next invocation would load from what is persisted now.
WatermarkNextRun == LoadedLastUid(cfg, mnbs)

\* send_mail was entered for h.cur in the latest turn of the loop.
Entered ==
    h.outcome \in {"sent", "rejected", "dispatch_failed", "send_mail_raised"}

\* h.cur's sender address is no member of a non-empty whitelist.
OffWhitelist ==
    /\ h.cur \in Uids
    /\ cfg.whitelist # <<>>
    /\ Mail(h.cur).from_[1][2] \notin
            {cfg.whitelist[i] : i \in 1..Len(cfg.whitelist)}

\* C1: a dispatch call that fails for one message only skips that message's
\* pacing delay: the loop goes on (or the run finalizes), the run never
\* ends on it.
C1_FailedDispatchContinues ==
    h.outcome = "dispatch_failed" => pc \in {"loop", "done"}

\* C2: the watermark in the state file never decreases: no step of any run
\* replaces a stored value by a lower one, nor removes the file.
C2_WatermarkNonDecreasing ==
    [][mnbs # NoFile => (mnbs' # NoFile /\ IntOf(mnbs') >= IntOf(mnbs))]_vars

\* A run rewrote a state file that already held a positive watermark.
C2_Witness ==
    /\ pc = "done"
    /\ h.stored0 # NoFile
    /\ IntOf(h.stored0) >= 1
    /\ IntOf(mnbs) > IntOf(h.stored0)

\* C3: a run that follows a completed run over a mailbox with no new message
\* makes no dispatch call (stated for the state-file mode, read_only set,
\* where the mail source's flags are left alone).
C3_SecondRunDispatchesNothing ==
    (h.repeat /\ cfg.read_only) =>
        (h.sends = 0 /\ h.outcome # "dispatch_failed")

\* C4: after a completed run that yielded a message, the state file holds the
\* highest identifier yielded in that run (stated for the state-file mode).
C4_PersistsHighestYielded ==
    (pc = "done" /\ cfg.read_only /\ h.yielded # {}) =>
        (mnbs # NoFile /\ IntOf(mnbs) = MaxOf(h.yielded))

\* C5: every message a run yields, passes to send_mail or dispatches has an
\* identifier strictly above the watermark loaded at start-up.
C5_YieldsOnlyAboveWatermark ==
    /\ \A u \in h.yielded : u > self_last_uid
    /\ Entered => h.cur > self_last_uid

\* A run skipped a message at or below a positive watermark and yielded
\* another one.
C5_Witness ==
    /\ h.outcome = "skipped"
    /\ h.cur <= self_last_uid
    /\ self_last_uid >= 1
    /\ h.yielded # {}

C8_LoginErrorEndsQuietly ==
    h.auth = "failed" =>
        /\ pc \in {"loop", "done"}
        /\ items = {}
        /\ h.outcome = "none"
        /\ h.yielded = {}
        /\ h.sends = 0
        /\ out = <<>>
        /\ last_uid = None
        /\ mnbs = h.stored0

\* A run ended after LoginError although the folder held a message above the
\* watermark that parses.
C8_Witness ==
    /\ h.auth = "failed"
    /\ pc = "done"
    /\ \E u \in Search(cfg.criteria) :
        ~IsOld(u, self_last_uid) /\ Mail(u).parse = "ok"

\* The segments with the characters the cuts removed put back between them.
RECURSIVE Rejoin(_, _)
Rejoin(segs, cuts) ==
    IF Len(segs) = 0 THEN <<>>
    ELSE IF Len(segs) = 1 \/ Len(cuts) = 0 THEN segs[1]
    ELSE segs[1] \o cuts[1] \o Rejoin(Tail(segs), Tail(cuts))

\* C9: split ends with a list of segments for every text: no call of it
\* ends in RecursionError, a text without a marker in its first
\* max_message_length characters included.
C9_SplitAlwaysReturns == sp.pc # "RecursionError"

C11_SegmentsWithinMaximum ==
    sp.pc = "returned" =>
        \A i \in 1..Len(sp.segs) : Len(sp.segs[i]) <= sp.max

\* split returned two segments or more from a text longer than the maximum,
\* one of them as long as a cut allows.
C11_Witness ==
    /\ sp.pc = "returned"
    /\ Len(sp.text) > sp.max
    /\ Len(sp.segs) >= 2
    /\ \E i \in 1..Len(sp.segs) : Len(sp.segs[i]) = sp.max - 1

\* C17: when split returns for a text of one character or more, no segment
\* is empty.
C17_SegmentsNonEmpty ==
    (sp.pc = "returned" /\ Len(sp.text) >= 1) =>
        \A i \in 1..Len(sp.segs) : Len(sp.segs[i]) > 0

\* The dispatch calls of the latest send_mail with the given method and file.
CallsOf(method, what) ==
    {i \in 1..Len(out) : out[i] = Call(method, what)}

\* The latest turn entered send_mail for h.cur and it returned True.
Sent == h.outcome = "sent" /\ h.cur \in Uids

\* C12: for a message with HTML and plain-text parts send_mail dispatches
\* one HTML document for the body, no chat message and no .txt document;
\* when a dispatch call fails, none of the calls before it is one of those.
C12_HtmlWinsOverPlainText ==
    (/\ Entered
     /\ h.cur \in Uids
     /\ Len(Mail(h.cur).text_html) > 0
     /\ Len(Mail(h.cur).text_plain) > 0) =>
        /\ \A i \in 1..Len(out) : out[i].method # "send_message"
        /\ CallsOf("send_document", ".txt") = {}
        /\ h.outcome = "sent" =>
                Cardinality(CallsOf("send_document", ".html")) = 1

\* send_mail returned for a message with both kinds of body.
C12_Witness ==
    /\ Sent
    /\ Len(Mail(h.cur).text_html) > 0
    /\ Len(Mail(h.cur).text_plain) > 0
    /\ out = <<Call("send_document", ".html")>>

\* C13 as stated: with the state file missing when the bot is built, the
\* loaded watermark is 0 and a state file holding 0 exists afterwards,
\* whatever last_uid and read_only are configured.
C13_MissingFileLoadsZero ==
    (pc = "constructed" /\ h.prior = NoFile) =>
        (self_last_uid = 0 /\ mnbs = JsonInt(0))

\* C13 as amended: with the state file missing when the bot is built, the
\* loaded watermark is the configured last_uid (0 by default); with
\* read_only set a state file holding 0 is created, without it no state file
\* is created.
C13_MissingFileLoadsConfigured ==
    (pc = "constructed" /\ h.prior = NoFile) =>
        /\ self_last_uid = cfg.last_uid
        /\ cfg.read_only => mnbs = JsonInt(0)
        /\ ~cfg.read_only => mnbs = NoFile

\* The bot was built in state-file mode without a state file and with a
\* positive last_uid configured.
C13_Witness ==
    /\ pc = "constructed"
    /\ h.prior = NoFile
    /\ cfg.read_only
    /\ cfg.last_uid >= 1
    /\ mnbs = JsonInt(0)

\* C14: with read_only false the watermark is written to the configuration
\* file after every processed message: after each turn of run's loop the
\* configured last_uid is the identifier just handled.
C14_ConfigWrittenPerMessage ==
    (~cfg.read_only /\ pc = "loop" /\ h.outcome \in {"sent", "rejected"}) =>
        cfg.last_uid = h.cur

\* C15: for a message with no body and n attachments send_mail makes n
\* document calls, one per attachment, and no chat-message or HTML call.
C15_OneDocumentPerAttachment ==
    (/\ Sent
     /\ Len(Mail(h.cur).text_html) = 0
     /\ Len(Mail(h.cur).text_plain) = 0) =>
        /\ Len(out) = Len(Mail(h.cur).attachments)
        /\ \A i \in 1..Len(out) :
            /\ out[i].method = "send_document"
            /\ out[i].what \notin {".html", ".txt"}

\* C16: whatever is raised while the bot is built or runs, main()'s handler
\* catches it: main() has logged and returned, nothing leaves main().
C16_MainCatchesEverything ==
    /\ pc \in {"idle", "constructed", "loop", "done", "aborted"}
    /\ h.raised # "" => pc = "aborted"
    /\ pc = "aborted" => h.raised # ""

\* main() returned after split raised RecursionError inside send_mail.
C16_Witness ==
    /\ pc = "aborted"
    /\ h.raised = "RecursionError"
    /\ h.outcome = "send_mail_raised"

====
